---- MODULE Spec2Model ----
(***************************************************************************)
(* hyprspacefix (src/main.go): a command-line tool that assigns a range of *)
(* workspaces to a monitor through one of two WindowManager backends.      *)
(*                                                                         *)
(* A string is a sequence of one-character strings.  Go's int is modelled  *)
(* as a two's-complement integer of IntBits bits (64 in the build); every  *)
(* arithmetic result is wrapped by Wrap.  The history variables (channel,  *)
(* calls, logs) record the first MaxIter loop iterations of a run.         *)
(***************************************************************************)
EXTENDS Integers, Sequences, FiniteSets, TLC

VARIABLES
    pc,             \* position of main: flags, select, init, parse, loop, done, exited;
                    \* of another caller of the interface: api, panicked
    wmType,         \* --wm
    monitorName,    \* --name
    workspaceRange, \* --range
    dryRun,         \* --dry-run
    verbose,        \* --verbose
    wm,             \* the selected WindowManager: none, hyprland, sway
    h,              \* HyprlandManager fields: conn, socketPath
    s,              \* SwayManager fields: client
    start,          \* main's start
    end,            \* main's end
    ws,             \* main's loop variable
    exitCode,       \* process exit status (2: panic), -1 while the process runs
    deferred,       \* TRUE once "defer wm.Close()" is registered
    channel,        \* directives the compositor received, in order
    calls,          \* AssignWorkspaceToMonitor calls made: workspace and error
    logs,           \* lines given to log.Printf / log.Fatal
    closeCalls,     \* number of Close calls made
    initState,      \* pending: Init not called; failed: no Init call succeeded; ok: one did
    iters,          \* loop iterations (or interface calls) so far, at most MaxIter
    lastOp,         \* the operation the last step performed
    lastErr         \* the error the last backend call returned

vars == <<pc, wmType, monitorName, workspaceRange, dryRun, verbose, wm, h, s,
          start, end, ws, exitCode, deferred, channel, calls, logs, closeCalls,
          initState, iters, lastOp, lastErr>>

----------------------------------------------------------------------------
(* Bounds *)

IntBits == 3
MaxIter == 5
MaxStrLen == 5

----------------------------------------------------------------------------
(* Go's int *)

MaxInt == 2^(IntBits - 1) - 1
MinInt == 0 - 2^(IntBits - 1)
Wrap(n) == ((n - MinInt) % (2^IntBits)) + MinInt

Nil == "nil"

----------------------------------------------------------------------------
(* Strings *)

Digits == {"0", "1", "2", "3", "4", "5", "6", "7", "8", "9"}
DigitVal(c) == CASE c = "0" -> 0 [] c = "1" -> 1 [] c = "2" -> 2 [] c = "3" -> 3
                 [] c = "4" -> 4 [] c = "5" -> 5 [] c = "6" -> 6 [] c = "7" -> 7
                 [] c = "8" -> 8 [] c = "9" -> 9
DigitChar(d) == CASE d = 0 -> "0" [] d = 1 -> "1" [] d = 2 -> "2" [] d = 3 -> "3"
                  [] d = 4 -> "4" [] d = 5 -> "5" [] d = 6 -> "6" [] d = 7 -> "7"
                  [] d = 8 -> "8" [] d = 9 -> "9"

RECURSIVE DecVal(_)
DecVal(str) ==
    IF Len(str) = 0 THEN 0
    ELSE 10 * DecVal(SubSeq(str, 1, Len(str) - 1)) + DigitVal(str[Len(str)])

RECURSIVE ItoaNat(_)
ItoaNat(n) ==
    IF n < 10 THEN <<DigitChar(n)>>
    ELSE ItoaNat(n \div 10) \o <<DigitChar(n % 10)>>

\* strconv.Itoa
Itoa(n) == IF n < 0 THEN <<"-">> \o ItoaNat(0 - n) ELSE ItoaNat(n)

\* strconv.Atoi: an optional sign, then one or more decimal digits; a value
\* outside the int range is a range error.
Atoi(str) ==
    LET signed == Len(str) > 0 /\ str[1] \in {"+", "-"}
        body   == IF signed THEN Tail(str) ELSE str
    IN  IF Len(body) = 0 \/ \E i \in 1..Len(body) : body[i] \notin Digits
        THEN [val |-> 0, err |-> "syntax"]
        ELSE LET m == DecVal(body)
                 v == IF signed /\ str[1] = "-" THEN 0 - m ELSE m
             IN  IF v > MaxInt THEN [val |-> MaxInt, err |-> "range"]
                 ELSE IF v < MinInt THEN [val |-> MinInt, err |-> "range"]
                 ELSE [val |-> v, err |-> Nil]

\* strings.Split(str, "-")
RECURSIVE Split(_)
Split(str) ==
    IF \A i \in 1..Len(str) : str[i] # "-" THEN <<str>>
    ELSE LET i == CHOOSE k \in 1..Len(str) :
                      str[k] = "-" /\ \A j \in 1..(k - 1) : str[j] # "-"
         IN  <<SubSeq(str, 1, i - 1)>> \o Split(SubSeq(str, i + 1, Len(str)))

\* strings.ToLower on the --wm values of the model
ToLower(t) == IF t = "Sway" THEN "sway" ELSE IF t = "HYPRLAND" THEN "hyprland" ELSE t

----------------------------------------------------------------------------
(* Inputs *)

Alphabet == {"1", "+", "-", "a"}
StringsUpTo(n) == UNION {[1..k -> Alphabet] : k \in 0..n}
\* every "s-e" with s, e from 0 to one past the largest int
DecimalRanges == {Itoa(a) \o <<"-">> \o Itoa(b) : a, b \in 0..(MaxInt + 1)}
RangeInputs == StringsUpTo(MaxStrLen) \cup DecimalRanges
WmTypes == {"", "hyprland", "Sway", "i3"}
MonitorNames == {"", "DP-1"}

----------------------------------------------------------------------------
(* HyprlandManager *)

NewHyprlandManager == [conn |-> "nil", socketPath |-> ""]

\* Init: signature is the environment variable, userOk whether user.Current
\* succeeds, dialOk whether net.Dial succeeds.
HyprlandInit(hh, signature, userOk, dialOk) ==
    IF signature = "" THEN [h |-> hh, err |-> "signature not set"]
    ELSE IF ~userOk THEN [h |-> hh, err |-> "failed to get current user"]
    ELSE IF ~dialOk
         THEN [h |-> [hh EXCEPT !.socketPath = "set"], err |-> "failed to connect"]
    ELSE [h |-> [conn |-> "open", socketPath |-> "set"], err |-> Nil]

\* sendMessage: writeOk is whether conn.Write succeeds on an open connection.
\* The channel holds the directives that were written whole.
sendMessage(hh, chan, message, writeOk) ==
    IF hh.conn = "nil" THEN [chan |-> chan, err |-> "no connection to Hyprland"]
    ELSE IF hh.conn = "closed" \/ ~writeOk THEN [chan |-> chan, err |-> "write error"]
    ELSE [chan |-> Append(chan, message), err |-> Nil]

BindDirective(w, m) == [verb |-> "keyword workspace", ws |-> w, monitor |-> m]
MoveDirective(w, m) == [verb |-> "dispatch moveworkspacetomonitor", ws |-> w, monitor |-> m]

\* The mutant sends the second command although the first failed.
HyprlandAssignNoAbort(hh, chan, workspace, monitor, writes) ==
    LET r1 == sendMessage(hh, chan, BindDirective(workspace, monitor), writes[1])
        r2 == sendMessage(hh, r1.chan, MoveDirective(workspace, monitor), writes[2])
    IN  IF r2.err # Nil THEN [chan |-> r2.chan, err |-> "failed to send command"]
        ELSE [chan |-> r2.chan, err |-> r1.err]

\* AssignWorkspaceToMonitor: writes[i] is whether the i-th write succeeds.
HyprlandAssign(hh, chan, workspace, monitor, writes) ==
    LET cmds == <<BindDirective(workspace, monitor), MoveDirective(workspace, monitor)>>
        r1   == sendMessage(hh, chan, cmds[1], writes[1])
    IN  IF r1.err # Nil THEN [chan |-> r1.chan, err |-> "failed to send command"]
        ELSE LET r2 == sendMessage(hh, r1.chan, cmds[2], writes[2])
             IN  IF r2.err # Nil THEN [chan |-> r2.chan, err |-> "failed to send command"]
                 ELSE [chan |-> r2.chan, err |-> Nil]

\* The mutant closes the connection without testing it for nil.
HyprlandCloseUnchecked(hh, osOk) ==
    IF hh.conn = "open" /\ osOk THEN [h |-> [hh EXCEPT !.conn = "closed"], err |-> Nil]
    ELSE [h |-> [hh EXCEPT !.conn = "closed"], err |-> "close error"]

\* Close: osOk is whether closing an open connection succeeds.
HyprlandClose(hh, osOk) ==
    IF hh.conn # "nil"
    THEN IF hh.conn = "open" /\ osOk
         THEN [h |-> [hh EXCEPT !.conn = "closed"], err |-> Nil]
         ELSE [h |-> [hh EXCEPT !.conn = "closed"], err |-> "close error"]
    ELSE [h |-> hh, err |-> Nil]

----------------------------------------------------------------------------
(* SwayManager *)

NewSwayManager == [client |-> "nil"]

\* Init: newOk is whether sway.New succeeds.
SwayInit(ss, newOk) ==
    IF ~newOk THEN [s |-> ss, err |-> "failed to connect to Sway"]
    ELSE [s |-> [client |-> "set"], err |-> Nil]

SwayDirective(w, m) == [verb |-> "workspace number, move workspace to output", ws |-> w, monitor |-> m]

\* AssignWorkspaceToMonitor on a non-nil client: runOk is whether RunCommand
\* succeeds, replies the Success field of each reply.
SwayAssign(chan, workspace, monitor, runOk, replies) ==
    IF ~runOk THEN [chan |-> chan, err |-> "failed to run Sway command"]
    ELSE IF \E i \in 1..Len(replies) : ~replies[i]
         THEN [chan |-> Append(chan, SwayDirective(workspace, monitor)),
               err |-> "Sway command failed"]
    ELSE [chan |-> Append(chan, SwayDirective(workspace, monitor)), err |-> Nil]

SwayClose(ss) == [s |-> ss, err |-> Nil]

WriteOutcomes == {<<TRUE, TRUE>>, <<TRUE, FALSE>>, <<FALSE, TRUE>>}
ReplyOutcomes == {<<>>, <<TRUE>>, <<FALSE>>, <<TRUE, FALSE>>}

----------------------------------------------------------------------------
(* main *)

\* The mutant rejects only a range with fewer than two parts.
ParseRangeLax(str) ==
    LET rangeParts == Split(str)
    IN  IF Len(rangeParts) < 2 THEN [err |-> "format", start |-> 0, end |-> 0]
        ELSE LET a == Atoi(rangeParts[1])
                 b == Atoi(rangeParts[2])
             IN  IF a.err # Nil THEN [err |-> "start", start |-> 0, end |-> 0]
                 ELSE IF b.err # Nil THEN [err |-> "end", start |-> a.val, end |-> 0]
                 ELSE [err |-> Nil, start |-> a.val, end |-> b.val]

\* Parse workspace range
ParseRange(str) ==
    LET rangeParts == Split(str)
    IN  IF Len(rangeParts) # 2 THEN [err |-> "format", start |-> 0, end |-> 0]
        ELSE LET a == Atoi(rangeParts[1])
                 b == Atoi(rangeParts[2])
             IN  IF a.err # Nil THEN [err |-> "start", start |-> 0, end |-> 0]
                 ELSE IF b.err # Nil THEN [err |-> "end", start |-> a.val, end |-> 0]
                 ELSE [err |-> Nil, start |-> a.val, end |-> b.val]

\* The mutant loops until the counter is one past the end.
LoopCondNotEqual(w, e) == w # Wrap(e + 1)

\* the loop condition
LoopCond(w, e) == w <= e

\* The mutant forgets the + 1.
SummaryCountOffByOne(a, b) == Wrap(b - a)

\* the count of the summary line
SummaryCount(a, b) == Wrap(Wrap(b - a) + 1)

WouldLine(w) == [kind |-> "would", n |-> w]
AssigningLine(w) == [kind |-> "assigning", n |-> w]
ErrorLine(w) == [kind |-> "error", n |-> w]
SummaryLine(n) == [kind |-> "summary", n |-> n]
FatalLine == [kind |-> "fatal", n |-> 0]

Init ==
    /\ pc = "flags"
    /\ wmType \in WmTypes
    /\ monitorName \in MonitorNames
    /\ workspaceRange \in RangeInputs
    /\ dryRun \in BOOLEAN
    /\ verbose \in BOOLEAN
    /\ wm = "none"
    /\ h = NewHyprlandManager
    /\ s = NewSwayManager
    /\ start = 0 /\ end = 0 /\ ws = 0
    /\ exitCode = -1
    /\ deferred = FALSE
    /\ channel = <<>> /\ calls = <<>> /\ logs = <<>>
    /\ closeCalls = 0
    /\ initState = "pending"
    /\ iters = 0
    /\ lastOp = "none"
    /\ lastErr = Nil

\* Validate flags
ValidateFlags ==
    /\ pc = "flags"
    /\ IF wmType = "" \/ monitorName = "" \/ workspaceRange = <<>>
       THEN pc' = "exited" /\ exitCode' = 1
       ELSE pc' = "select" /\ exitCode' = exitCode
    /\ lastOp' = "ValidateFlags"
    /\ UNCHANGED <<wmType, monitorName, workspaceRange, dryRun, verbose, wm, h, s,
                   start, end, ws, deferred, channel, calls, logs, closeCalls,
                   initState, iters, lastErr>>

\* Create window manager instance
SelectBackend ==
    /\ pc = "select"
    /\ IF ToLower(wmType) \in {"hyprland", "sway"}
       THEN /\ wm' = ToLower(wmType)
            /\ pc' = "init"
            /\ UNCHANGED <<exitCode, logs>>
       ELSE /\ pc' = "exited" /\ exitCode' = 1
            /\ logs' = Append(logs, FatalLine)
            /\ wm' = wm
    /\ lastOp' = "SelectBackend"
    /\ UNCHANGED <<wmType, monitorName, workspaceRange, dryRun, verbose, h, s,
                   start, end, ws, deferred, channel, calls, closeCalls,
                   initState, iters, lastErr>>

\* the outcomes of wm.Init() on the selected backend
InitOutcomes ==
    IF wm = "hyprland"
    THEN {HyprlandInit(h, sig, userOk, dialOk) :
              sig \in {"", "sig"}, userOk \in BOOLEAN, dialOk \in BOOLEAN}
    ELSE {[h |-> h, err |-> SwayInit(s, newOk).err] : newOk \in BOOLEAN}

\* Initialize window manager
InitBackend ==
    /\ pc = "init"
    /\ \E r \in InitOutcomes :
         /\ h' = r.h
         /\ s' = IF wm = "sway" /\ r.err = Nil THEN SwayInit(s, TRUE).s ELSE s
         /\ lastErr' = r.err
         /\ IF r.err # Nil
            THEN /\ pc' = "exited" /\ exitCode' = 1
                 /\ logs' = Append(logs, FatalLine)
                 /\ initState' = "failed"
                 /\ deferred' = deferred
            ELSE /\ pc' = "parse"
                 /\ initState' = "ok"
                 /\ deferred' = TRUE
                 /\ UNCHANGED <<exitCode, logs>>
    /\ lastOp' = "Init"
    /\ UNCHANGED <<wmType, monitorName, workspaceRange, dryRun, verbose, wm,
                   start, end, ws, channel, calls, closeCalls, iters>>

\* Parse workspace range; log.Fatal exits without running deferred calls.
ParseStep ==
    /\ pc = "parse"
    /\ LET r == ParseRange(workspaceRange)
       IN  IF r.err # Nil
           THEN /\ pc' = "exited" /\ exitCode' = 1
                /\ logs' = Append(logs, FatalLine)
                /\ UNCHANGED <<start, end, ws>>
           ELSE /\ pc' = "loop"
                /\ start' = r.start /\ end' = r.end /\ ws' = r.start
                /\ UNCHANGED <<exitCode, logs>>
    /\ lastOp' = "ParseRange"
    /\ UNCHANGED <<wmType, monitorName, workspaceRange, dryRun, verbose, wm, h, s,
                   deferred, channel, calls, closeCalls, initState, iters, lastErr>>

Recording == iters < MaxIter
NextIters == IF iters < MaxIter THEN iters + 1 ELSE iters

\* One iteration of the loop in dry-run mode
LoopDryRun ==
    /\ pc = "loop"
    /\ LoopCond(ws, end)
    /\ dryRun
    /\ logs' = IF Recording THEN Append(logs, WouldLine(ws)) ELSE logs
    /\ ws' = Wrap(ws + 1)
    /\ iters' = NextIters
    /\ lastOp' = "DryRun"
    /\ UNCHANGED <<pc, wmType, monitorName, workspaceRange, dryRun, verbose, wm, h, s,
                   start, end, exitCode, deferred, channel, calls, closeCalls,
                   initState, lastErr>>

\* the outcomes of wm.AssignWorkspaceToMonitor(w, monitorName) on the selected backend
AssignOutcomes(w) ==
    IF wm = "hyprland"
    THEN {HyprlandAssign(h, channel, w, monitorName, writes) : writes \in WriteOutcomes}
    ELSE {SwayAssign(channel, w, monitorName, runOk, replies) :
              runOk \in BOOLEAN, replies \in ReplyOutcomes}

\* One iteration of the loop that calls the backend
LoopAssign ==
    /\ pc = "loop"
    /\ LoopCond(ws, end)
    /\ ~dryRun
    /\ \E r \in AssignOutcomes(ws) :
         LET l1 == IF verbose THEN Append(logs, AssigningLine(ws)) ELSE logs
             l2 == IF r.err # Nil THEN Append(l1, ErrorLine(ws)) ELSE l1
         IN  /\ channel' = IF Recording THEN r.chan ELSE channel
             /\ calls' = IF Recording THEN Append(calls, [ws |-> ws, err |-> r.err])
                         ELSE calls
             /\ logs' = IF Recording THEN l2 ELSE logs
             /\ lastErr' = r.err
    /\ ws' = Wrap(ws + 1)
    /\ iters' = NextIters
    /\ lastOp' = "Assign"
    /\ UNCHANGED <<pc, wmType, monitorName, workspaceRange, dryRun, verbose, wm, h, s,
                   start, end, exitCode, deferred, closeCalls, initState>>

\* The loop ends: the summary line, then main returns and the deferred Close runs.
LoopExit ==
    /\ pc = "loop"
    /\ ~LoopCond(ws, end)
    /\ deferred
    /\ logs' = IF verbose THEN Append(logs, SummaryLine(SummaryCount(start, end)))
               ELSE logs
    /\ \E osOk \in BOOLEAN :
         LET rh == HyprlandClose(h, osOk)
             rs == SwayClose(s)
         IN  /\ h' = IF wm = "hyprland" THEN rh.h ELSE h
             /\ s' = IF wm = "sway" THEN rs.s ELSE s
             /\ lastErr' = IF wm = "hyprland" THEN rh.err ELSE rs.err
    /\ closeCalls' = closeCalls + 1
    /\ pc' = "done"
    /\ exitCode' = 0
    /\ lastOp' = "Close"
    /\ UNCHANGED <<wmType, monitorName, workspaceRange, dryRun, verbose, wm,
                   start, end, ws, deferred, channel, calls, initState, iters>>

Next ==
    \/ ValidateFlags
    \/ SelectBackend
    \/ InitBackend
    \/ ParseStep
    \/ LoopDryRun
    \/ LoopAssign
    \/ LoopExit

Spec == Init /\ [][Next]_vars

----------------------------------------------------------------------------
(* The WindowManager interface driven by any caller: Init, Close and         *)
(* AssignWorkspaceToMonitor in any order, at most MaxIter calls.             *)

InitAPI ==
    /\ pc = "api"
    /\ wm \in {"hyprland", "sway"}
    /\ wmType = wm
    /\ monitorName = "DP-1"
    /\ workspaceRange = <<>>
    /\ dryRun = FALSE
    /\ verbose = FALSE
    /\ h = NewHyprlandManager
    /\ s = NewSwayManager
    /\ start = 0 /\ end = 0 /\ ws = 0
    /\ exitCode = -1
    /\ deferred = FALSE
    /\ channel = <<>> /\ calls = <<>> /\ logs = <<>>
    /\ closeCalls = 0
    /\ initState = "pending"
    /\ iters = 0
    /\ lastOp = "none"
    /\ lastErr = Nil

\* a call of Init
APIInit ==
    /\ pc = "api"
    /\ iters < MaxIter
    /\ \E r \in InitOutcomes :
         /\ h' = r.h
         /\ s' = IF wm = "sway" /\ r.err = Nil THEN SwayInit(s, TRUE).s ELSE s
         /\ lastErr' = r.err
         /\ initState' = IF r.err = Nil \/ initState = "ok" THEN "ok" ELSE "failed"
    /\ iters' = iters + 1
    /\ lastOp' = "Init"
    /\ UNCHANGED <<pc, wmType, monitorName, workspaceRange, dryRun, verbose, wm,
                   start, end, ws, exitCode, deferred, channel, calls, logs,
                   closeCalls>>

\* a call of AssignWorkspaceToMonitor; on a SwayManager without a client the
\* method call on the nil interface panics.
APIAssign ==
    /\ pc = "api"
    /\ iters < MaxIter
    /\ \E w \in {1, 2} :
         IF wm = "sway" /\ s.client = "nil"
         THEN /\ pc' = "panicked" /\ exitCode' = 2
              /\ lastErr' = "panic"
              /\ UNCHANGED <<channel, calls>>
         ELSE \E r \in AssignOutcomes(w) :
                /\ channel' = r.chan
                /\ calls' = Append(calls, [ws |-> w, err |-> r.err])
                /\ lastErr' = r.err
                /\ UNCHANGED <<pc, exitCode>>
    /\ iters' = iters + 1
    /\ lastOp' = "Assign"
    /\ UNCHANGED <<wmType, monitorName, workspaceRange, dryRun, verbose, wm, h, s,
                   start, end, ws, deferred, logs, closeCalls, initState>>

\* a call of Close
APIClose ==
    /\ pc = "api"
    /\ iters < MaxIter
    /\ \E osOk \in BOOLEAN :
         LET rh == HyprlandClose(h, osOk)
             rs == SwayClose(s)
         IN  /\ h' = IF wm = "hyprland" THEN rh.h ELSE h
             /\ s' = IF wm = "sway" THEN rs.s ELSE s
             /\ lastErr' = IF wm = "hyprland" THEN rh.err ELSE rs.err
    /\ closeCalls' = closeCalls + 1
    /\ iters' = iters + 1
    /\ lastOp' = "Close"
    /\ UNCHANGED <<pc, wmType, monitorName, workspaceRange, dryRun, verbose, wm,
                   start, end, ws, exitCode, deferred, channel, calls, logs,
                   initState>>

NextAPI ==
    \/ Next
    \/ APIInit
    \/ APIAssign
    \/ APIClose

\* main's runs together with the runs of any other caller of the interface
SpecAPI == (Init \/ InitAPI) /\ [][NextAPI]_vars

\* main is one sequential process: it takes its next step whenever it has one.
LiveSpec == Spec /\ WF_vars(Next)

----------------------------------------------------------------------------
(* Properties *)

RangeSeq(a, b) == [i \in 1..(b - a + 1) |-> a + i - 1]
IsPrefix(p, q) == Len(p) <= Len(q) /\ \A i \in 1..Len(p) : p[i] = q[i]
CallWs == [i \in 1..Len(calls) |-> calls[i].ws]
IsWould(l) == l.kind = "would"
WouldLines == SelectSeq(logs, IsWould)
WouldWs == [i \in 1..Len(WouldLines) |-> WouldLines[i].n]
Attempted == Len(calls) + Len(WouldLines)
Parsed == pc \in {"loop", "done"}
AfterParse == initState = "ok" /\ pc \in {"loop", "done", "exited"}

\* C1: in a run that is not a dry run, whose Init succeeded and whose range
\* parsed with start <= end, AssignWorkspaceToMonitor is called once for each
\* workspace of start..end in ascending order, each call's workspace one more
\* than the previous one's, and exactly end - start + 1 times when the run ends.
C1_AscendingCalls ==
    (Parsed /\ ~dryRun /\ start <= end) =>
        /\ IsPrefix(CallWs, RangeSeq(start, end))
        /\ (pc = "done" /\ iters < MaxIter) => CallWs = RangeSeq(start, end)

\* C2: whenever the process has ended after a successful Init, Close has been
\* called exactly once.
C2_CloseOnEveryExit ==
    (pc \in {"done", "exited"} /\ initState = "ok") => closeCalls = 1

\* C3: an error returned by AssignWorkspaceToMonitor is only logged: the run
\* goes on to Done with exit status 0; exit status 1 comes only from flag
\* validation, backend selection, Init or range parsing.
C3_ErrorsNotFatal ==
    /\ [](exitCode = 1 => lastOp \in {"ValidateFlags", "SelectBackend", "Init", "ParseRange"})
    /\ (pc = "loop" /\ lastOp = "Assign" /\ lastErr # Nil) ~> (pc = "done" /\ exitCode = 0)

DashCount(str) == Cardinality({i \in 1..Len(str) : str[i] = "-"})
TheDash(str) == CHOOSE i \in 1..Len(str) : str[i] = "-"
Part1(str) == SubSeq(str, 1, TheDash(str) - 1)
Part2(str) == SubSeq(str, TheDash(str) + 1, Len(str))
\* a decimal numeral: an optional plus sign, then digits
IsNumeral(p) ==
    LET body == IF Len(p) > 0 /\ p[1] = "+" THEN Tail(p) ELSE p
    IN  Len(body) > 0 /\ \A i \in 1..Len(body) : body[i] \in Digits
NumVal(p) == DecVal(IF p[1] = "+" THEN Tail(p) ELSE p)
TwoIntegers(str) == DashCount(str) = 1 /\ IsNumeral(Part1(str)) /\ IsNumeral(Part2(str))
FatalBeforeLoop == pc = "exited" /\ exitCode = 1 /\ calls = <<>> /\ channel = <<>>

C5_DryRun ==
    dryRun =>
        /\ calls = <<>>
        /\ channel = <<>>
        /\ Parsed => IsPrefix(WouldWs, RangeSeq(start, end))
        /\ (pc = "done" /\ iters < MaxIter) => WouldWs = RangeSeq(start, end)

\* C6: a failed Init ends main with status 1 and no assignment call; and a
\* Close call on a backend no Init call of which succeeded returns nil and
\* changes neither the backend nor the channel, however often it is repeated.
C6_InitFailure ==
    /\ []((pc \notin {"api", "panicked"} /\ initState = "failed") =>
              FatalBeforeLoop /\ closeCalls = 0)
    /\ [][(lastOp' = "Close" /\ initState # "ok") =>
              (lastErr' = Nil /\ h' = h /\ s' = s /\ channel' = channel)]_vars

C6_Witness ==
    /\ pc = "api" /\ wm = "hyprland"
    /\ initState = "failed" /\ h.socketPath = "set"
    /\ lastOp = "Close" /\ closeCalls = 2 /\ lastErr = Nil

MoveAfterBind ==
    \A i \in 1..Len(channel) :
        channel[i].verb = "dispatch moveworkspacetomonitor" =>
            i > 1 /\ channel[i - 1] = BindDirective(channel[i].ws, channel[i].monitor)

SummaryLines == SelectSeq(logs, LAMBDA l : l.kind = "summary")

\* C8 as stated: a verbose run that reaches Done has logged one summary line
\* whose count is end - start + 1, and that count is the number of workspaces
\* attempted in the run.
C8_CountIsAttempts ==
    (pc = "done" /\ verbose /\ iters < MaxIter) =>
        /\ SummaryLines = <<SummaryLine(end - start + 1)>>
        /\ end - start + 1 = Attempted

\* C8 amended: the summary count is end - start + 1; it is the number of
\* workspaces attempted when start <= end + 1, and with start > end + 1 it is
\* negative while no workspace was attempted.
C8_SummaryCount ==
    (pc = "done" /\ verbose /\ iters < MaxIter) =>
        /\ SummaryLines = <<SummaryLine(end - start + 1)>>
        /\ logs[Len(logs)] = SummaryLine(end - start + 1)
        /\ start <= end + 1 => end - start + 1 = Attempted
        /\ start > end + 1 => (end - start + 1 < 0 /\ Attempted = 0)

C8_Witness ==
    /\ pc = "done" /\ verbose /\ ~dryRun /\ iters < MaxIter
    /\ start < end
    /\ \E i \in 1..Len(calls) : calls[i].err # Nil
    /\ \E i \in 1..Len(calls) : calls[i].err = Nil

\* C9: a parsed range with start > end is accepted and does nothing: no
\* assignment call, no directive, no per-workspace log line, and the run ends
\* with exit status 0.
C9_EmptyRange ==
    (Parsed /\ start > end) =>
        /\ calls = <<>> /\ channel = <<>> /\ iters = 0
        /\ \A i \in 1..Len(logs) : logs[i].kind = "summary"
        /\ ws = start
        /\ pc = "loop" => ENABLED LoopExit
        /\ exitCode = IF pc = "done" THEN 0 ELSE -1

C9_Witness ==
    /\ pc = "done" /\ exitCode = 0 /\ ~dryRun /\ verbose /\ wm = "hyprland"
    /\ start > end + 1 /\ end > 0

\* C10: once the range is parsed the loop terminates and the run reaches Done.
C10_LoopTerminates == (pc = "loop") ~> (pc = "done")

====
